---- MODULE Spec2Model ----
(***************************************************************************)
(* A model of the announcement and reminder bot of src/index.js: the       *)
(* milestone engine (runCheck), the reminder queue (schedulePing,          *)
(* removeScheduledByGroupKey, processScheduled) and the hour-chosen step   *)
(* of the selection flow (interactionCreate).                              *)
(*                                                                         *)
(* Time is an integer count of 10-minute units; the program's millisecond  *)
(* constants are scaled to that unit (an hour is 6, thirty minutes 3, ten  *)
(* minutes 1, a UTC day 144).  The process is single threaded: every       *)
(* action below is the code that runs between two awaits, and an await is  *)
(* a program position from which any other task may run first.             *)
(***************************************************************************)
EXTENDS Integers, Sequences, FiniteSets, TLC

(* ------------------------------ constants ------------------------------ *)

\* 3600000 ms (addHours)
HOUR == 6
\* 30 * 60 * 1000 ms
THIRTY_MIN == 3
\* 10 * 60 * 1000 ms
TEN_MIN == 1
\* a UTC day: isoDateUTC and Date.UTC count whole days
DAY == 144

\* the value null / undefined of an identifier
Null == "null"

(* ------------------------------- bounds -------------------------------- *)

\* at most MaxId reminder jobs are ever created
MaxId == 4

\* concurrent invocations of runCheck and of processScheduled that are modelled
Polls == {1, 2}
Sweeps == {1, 2}

(* ------------------------------ calendar ------------------------------- *)

Ev(uid, type, start, end) == [uid |-> uid, type |-> type, start |-> start, end |-> end]

\* The calendars the Calendar Source may serve; one is chosen at start-up and
\* kept.  type is what getEventType extracts from the event's text ("null":
\* no "Type:" tag); the ids are unique, and an event may have none.  r1 is
\* the spec's two-day registration window, r2 a registration window shorter
\* than six hours, m1 a deferred-window event.
Calendars ==
    { << Ev("r1", "ark_registration", 1 * DAY, 3 * DAY),
         Ev("m1", "mge", 4 * DAY, 5 * DAY) >>,
      << Ev("r2", "ark_registration", DAY + 12 * HOUR, DAY + 14 * HOUR),
         Ev("x1", "ark_battle", DAY, 2 * DAY) >>,
      << Ev("", "ark_registration", 1 * DAY, 2 * DAY),
         Ev("n1", "null", 1 * DAY, 2 * DAY),
         Ev("r3", "ark_registration", 1 * DAY + HOUR, 2 * DAY + HOUR) >> }

(* ------------------------------- helpers ------------------------------- *)

isoDateUTC(d) == d \div DAY

addHours(date, h) == date + h * HOUR

getEventType(ev) == ev.type

makeKey(prefix, ev, suffix) ==
    LET uid == IF ev.uid # "" THEN ev.uid ELSE "no_uid"
    IN  << prefix, uid, isoDateUTC(ev.start), suffix >>

\* getPingChannelId with a built-in default channel
getPingChannelId_Default(pingChannelId, fallback) ==
    IF pingChannelId # Null THEN pingChannelId
    ELSE IF fallback # Null THEN fallback ELSE "c1"

getPingChannelId(pingChannelId, fallback) ==
    IF pingChannelId # Null THEN pingChannelId
    ELSE IF fallback # Null THEN fallback ELSE Null

Min(S) == CHOOSE x \in S : \A y \in S : x <= y

(* ------------------------------- state --------------------------------- *)

VARIABLES
    now,              \* the wall clock (Date.now(), new Date())
    calendar,         \* what fetchEvents returns
    menu,             \* the select menu of the bot's !aoo message
    cfgPing,          \* state.config.pingChannelId
    flags,            \* the milestone keys k with state[k] = true
    scheduled,        \* state.scheduled: the array of reminder jobs
    sent,             \* the ids of the job objects whose field sent is true
    disk,             \* the document last written to state.json
    runCheckRunning,  \* the reentrancy flag of runCheck
    pollPc,           \* per runCheck invocation: the await it is suspended in
    pollNow,          \* its local now
    pollPos,          \* the milestone whose channel.send it awaits
    pollLog,          \* history: the keys it has announced in this cycle
    pollOutcome,      \* history: how its last cycle ended
    callTick,         \* history: flips at every invocation of runCheck
    sendCount,        \* history: successful announcements per key (2: several)
    nextId,           \* the number of jobs created so far
    swPc,             \* per processScheduled invocation: the await it is in
    swNow,            \* its local nowMs
    swLive,           \* whether the array it iterates is still state.scheduled
    swSnap,           \* the array it iterates, once state.scheduled was replaced
    swIdx,            \* the index of the item it is delivering
    swChanged,        \* its local changed
    delivered         \* history: successful deliveries per job still referenced (2: several)

pollVars == << runCheckRunning, pollPc, pollNow, pollPos, pollLog, pollOutcome,
               callTick, sendCount >>
sweepVars == << swPc, swNow, swLive, swSnap, swIdx, swChanged, delivered >>
queueVars == << scheduled, sent, nextId >>
vars == << now, calendar, menu, cfgPing, flags, disk, pollVars, sweepVars, queueVars >>

(* ----------------------------- persistence ----------------------------- *)

\* JSON.stringify(state): the queue with each job's sent field, the
\* configuration and the milestone flags
Serialize(fl, sch, sn, ping) ==
    [ flags |-> fl,
      scheduled |-> [i \in 1..Len(sch) |->
                        [id |-> sch[i].id, channelId |-> sch[i].channelId,
                         runAtMs |-> sch[i].runAtMs, message |-> sch[i].message,
                         sent |-> sch[i].id \in sn, groupKey |-> sch[i].groupKey]],
      pingChannelId |-> ping ]

\* saveState(): fs.writeFileSync of the whole document
saveState(fl, sch, sn, ping) == disk' = Serialize(fl, sch, sn, ping)

(* --------------------------- milestone engine -------------------------- *)

Typed(ev) == getEventType(ev) \in {"ark_registration", "mge"}

\* the flag key of milestone m (1: open, 2: warning, 3: closed) of event ev
FlagKey(ev, m) ==
    IF getEventType(ev) = "ark_registration"
    THEN CASE m = 1 -> makeKey("AOO_REG", ev, "open_at_start")
           [] m = 2 -> makeKey("AOO_REG", ev, "6h_before_end")
           [] OTHER -> makeKey("AOO_REG", ev, "closed_at_end")
    ELSE CASE m = 1 -> makeKey("MGE", ev, "open_24h_after_end")
           [] m = 2 -> makeKey("MGE", ev, "48h_before_start_warn_close_24h")
           [] OTHER -> makeKey("MGE", ev, "closed_24h_before_start")

\* Trigger without the upper limit of the deferred-window closing
Trigger_MgeClosedUnbounded(ev, m, t) ==
    IF getEventType(ev) = "ark_registration"
    THEN CASE m = 1 -> t >= ev.start
           [] m = 2 -> t >= addHours(ev.end, -6) /\ t < ev.end
           [] OTHER -> t >= ev.end
    ELSE CASE m = 1 -> t >= addHours(ev.end, 24)
           [] m = 2 -> t >= addHours(ev.start, -48) /\ t < addHours(ev.start, -24)
           [] OTHER -> t >= addHours(ev.start, -24)

\* Trigger without the upper limit of the registration warning
Trigger_WarnUnbounded(ev, m, t) ==
    IF getEventType(ev) = "ark_registration"
    THEN CASE m = 1 -> t >= ev.start
           [] m = 2 -> t >= addHours(ev.end, -6)
           [] OTHER -> t >= ev.end
    ELSE CASE m = 1 -> t >= addHours(ev.end, 24)
           [] m = 2 -> t >= addHours(ev.start, -48) /\ t < addHours(ev.start, -24)
           [] OTHER -> t >= addHours(ev.start, -24) /\ t < ev.start

\* Trigger with the open announcement of a registration window due only
\* until the window ends
Trigger_OpenBounded(ev, m, t) ==
    IF getEventType(ev) = "ark_registration"
    THEN CASE m = 1 -> t >= ev.start /\ t < ev.end
           [] m = 2 -> t >= addHours(ev.end, -6) /\ t < ev.end
           [] OTHER -> t >= ev.end
    ELSE CASE m = 1 -> t >= addHours(ev.end, 24)
           [] m = 2 -> t >= addHours(ev.start, -48) /\ t < addHours(ev.start, -24)
           [] OTHER -> t >= addHours(ev.start, -24) /\ t < ev.start

\* the time condition of milestone m of event ev at the poll's now
Trigger(ev, m, t) ==
    IF getEventType(ev) = "ark_registration"
    THEN CASE m = 1 -> t >= ev.start
           [] m = 2 -> t >= addHours(ev.end, -6) /\ t < ev.end
           [] OTHER -> t >= ev.end
    ELSE CASE m = 1 -> t >= addHours(ev.end, 24)
           [] m = 2 -> t >= addHours(ev.start, -48) /\ t < addHours(ev.start, -24)
           [] OTHER -> t >= addHours(ev.start, -24) /\ t < ev.start

\* Positions 1..3*n run through the events in order and, for each, through
\* its milestones in the order of the code's three if statements.
PosEvent(cal, q) == cal[((q - 1) \div 3) + 1]
PosMilestone(q) == ((q - 1) % 3) + 1
PosKey(cal, q) == FlagKey(PosEvent(cal, q), PosMilestone(q))

\* ShouldSend without the test of the flag
ShouldSend_NoFlag(cal, q, fl, t) ==
    /\ Typed(PosEvent(cal, q))
    /\ Trigger(PosEvent(cal, q), PosMilestone(q), t)

\* if (!state[key] && <trigger>)
ShouldSend(cal, q, fl, t) ==
    /\ Typed(PosEvent(cal, q))
    /\ PosKey(cal, q) \notin fl
    /\ Trigger(PosEvent(cal, q), PosMilestone(q), t)

\* the first position at or after q whose if statement is entered; 0 when the
\* loop runs to its end without a send
ScanFrom(cal, q, fl, t) ==
    LET c == { r \in q..(3 * Len(cal)) : ShouldSend(cal, r, fl, t) }
    IN  IF c = {} THEN 0 ELSE Min(c)

\* runCheck without its reentrancy guard
GuardTaken_Never == FALSE

\* if (runCheckRunning) return;
GuardTaken == runCheckRunning

\* the end of a cycle without the finally block
PollEnd_KeepGuard(p, how) ==
    /\ runCheckRunning' = runCheckRunning
    /\ pollPc' = [pollPc EXCEPT ![p] = "idle"]
    /\ pollOutcome' = [pollOutcome EXCEPT ![p] = how]

\* the finally block, with how the cycle ended
PollEnd(p, how) ==
    /\ runCheckRunning' = FALSE
    /\ pollPc' = [pollPc EXCEPT ![p] = "idle"]
    /\ pollOutcome' = [pollOutcome EXCEPT ![p] = how]

\* the for loop from position q on, up to its next await or its end
PollLoop(p, q, fl, t) ==
    LET r == ScanFrom(calendar, q, fl, t)
    IN  IF r = 0
        THEN /\ PollEnd(p, "done")
             /\ pollPos' = [pollPos EXCEPT ![p] = 0]
        ELSE /\ pollPc' = [pollPc EXCEPT ![p] = "send"]
             /\ pollPos' = [pollPos EXCEPT ![p] = r]
             /\ UNCHANGED << runCheckRunning, pollOutcome >>

FreeSlot(p) ==
    /\ pollPc[p] = "idle"
    /\ \A r \in Polls : pollPc[r] = "idle" => p <= r

\* runCheck is invoked (start-up, or the setInterval timer fires)
RunCheck(p) ==
    /\ FreeSlot(p)
    /\ callTick' = 1 - callTick
    /\ IF GuardTaken
       THEN /\ pollOutcome' = [pollOutcome EXCEPT ![p] = "skipped"]
            /\ UNCHANGED << runCheckRunning, pollPc, pollLog >>
       ELSE IF getPingChannelId(cfgPing, Null) = Null
       THEN /\ pollOutcome' = [pollOutcome EXCEPT ![p] = "nochannel"]
            /\ runCheckRunning' = FALSE
            /\ UNCHANGED << pollPc, pollLog >>
       ELSE /\ runCheckRunning' = TRUE
            /\ pollPc' = [pollPc EXCEPT ![p] = "fetchChannel"]
            /\ pollOutcome' = [pollOutcome EXCEPT ![p] = "running"]
            /\ pollLog' = [pollLog EXCEPT ![p] = << >>]
    /\ UNCHANGED << now, calendar, menu, cfgPing, flags, disk, pollNow, pollPos,
                    sendCount, sweepVars, queueVars >>

\* await client.channels.fetch(pingChannelId) settles
ChannelFetched(p, res) ==
    /\ pollPc[p] = "fetchChannel"
    /\ CASE res = "text" ->
               /\ pollNow' = [pollNow EXCEPT ![p] = now]
               /\ pollPc' = [pollPc EXCEPT ![p] = "fetchEvents"]
               /\ UNCHANGED << runCheckRunning, pollOutcome >>
         [] res = "nontext" ->
               /\ PollEnd(p, "badchannel")
               /\ UNCHANGED pollNow
         [] OTHER ->
               /\ PollEnd(p, "error")
               /\ UNCHANGED pollNow
    /\ UNCHANGED << now, calendar, menu, cfgPing, flags, disk, pollPos, pollLog,
                    callTick, sendCount, sweepVars, queueVars >>

\* await fetchEvents() settles
EventsFetched(p, ok) ==
    /\ pollPc[p] = "fetchEvents"
    /\ IF ok
       THEN PollLoop(p, 1, flags, pollNow[p])
       ELSE PollEnd(p, "error") /\ UNCHANGED pollPos
    /\ UNCHANGED << now, calendar, menu, cfgPing, flags, disk, pollNow, pollLog,
                    callTick, sendCount, sweepVars, queueVars >>

Bump(n) == IF n < 2 THEN n + 1 ELSE 2

\* SendSettled with the flag set and saved whether or not the send succeeded
SendSettled_FlagAnyway(p, ok) ==
    /\ pollPc[p] = "send"
    /\ LET key == PosKey(calendar, pollPos[p])
       IN  /\ flags' = flags \cup {key}
           /\ saveState(flags', scheduled, sent, cfgPing)
           /\ IF ok
              THEN /\ sendCount' = [sendCount EXCEPT ![key] = Bump(@)]
                   /\ pollLog' = [pollLog EXCEPT ![p] = Append(@, key)]
                   /\ PollLoop(p, pollPos[p] + 1, flags', pollNow[p])
              ELSE /\ PollEnd(p, "failed")
                   /\ UNCHANGED << sendCount, pollLog, pollPos >>
    /\ UNCHANGED << now, calendar, menu, cfgPing, pollNow, callTick, sweepVars,
                    queueVars >>

\* await channel.send(...) settles: state[key] = true; saveState(); and on
\* to the next if statement, or the catch block
SendSettled(p, ok) ==
    /\ pollPc[p] = "send"
    /\ LET key == PosKey(calendar, pollPos[p])
       IN  IF ok
           THEN /\ flags' = flags \cup {key}
                /\ saveState(flags', scheduled, sent, cfgPing)
                /\ sendCount' = [sendCount EXCEPT ![key] = Bump(@)]
                /\ pollLog' = [pollLog EXCEPT ![p] = Append(@, key)]
                /\ PollLoop(p, pollPos[p] + 1, flags', pollNow[p])
           ELSE /\ PollEnd(p, "failed")
                /\ UNCHANGED << flags, disk, sendCount, pollLog, pollPos >>
    /\ UNCHANGED << now, calendar, menu, cfgPing, pollNow, callTick, sweepVars,
                    queueVars >>

\* set_ping_channel that replaces the state by a fresh one with the new channel
SetPingChannel_Reset(ch) ==
    /\ cfgPing' = ch
    /\ flags' = {}
    /\ saveState(flags', scheduled, sent, cfgPing')
    /\ UNCHANGED << now, calendar, menu, pollVars, sweepVars, queueVars >>

\* !set_ping_channel #channel
SetPingChannel(ch) ==
    /\ cfgPing' = ch
    /\ saveState(flags, scheduled, sent, cfgPing')
    /\ UNCHANGED << now, calendar, menu, flags, pollVars, sweepVars, queueVars >>

(* ---------------------------- reminder queue --------------------------- *)

\* a groupKey that is null, and one that is the empty string
NullKey == << >>
EmptyKey == << "" >>

Ids(sch) == { sch[i].id : i \in 1..Len(sch) }

\* the array a suspended sweep iterates: state.scheduled itself, or the
\* array it was before a filter() replaced it
SweepArr(s) == IF swLive[s] THEN scheduled ELSE swSnap[s]

\* A filter() assigns a new array to state.scheduled: the sweeps iterating
\* the old one keep it, with the contents it has at that moment.
Detach(except) ==
    /\ swLive' = [t \in Sweeps |-> FALSE]
    /\ swSnap' = [t \in Sweeps |->
                    IF t = except THEN << >>
                    ELSE IF swLive[t] THEN scheduled ELSE swSnap[t]]

\* state.scheduled.push({ id, channelId, runAtMs, message, sent: false, groupKey })
schedulePing(sch, id, channelId, runAtMs, message, groupKey) ==
    Append(sch, [id |-> id, channelId |-> channelId, runAtMs |-> runAtMs,
                 message |-> message, groupKey |-> groupKey])

\* the cancel filter that keeps every job
KeepOnCancel_All(x, sn, groupKey) == TRUE

\* the cancel filter without the test of the sent field
KeepOnCancel_IgnoreSent(x, sn, groupKey) == x.groupKey # groupKey

\* (x) => x.sent || x.groupKey !== groupKey
KeepOnCancel(x, sn, groupKey) == x.id \in sn \/ x.groupKey # groupKey

\* removeScheduledByGroupKey without its saveState()
removeScheduledByGroupKey_NoSave(sch, sn, groupKey) ==
    IF groupKey \in {NullKey, EmptyKey}
    THEN [queue |-> sch, removed |-> 0, replaced |-> FALSE, saved |-> FALSE]
    ELSE LET kept == SelectSeq(sch, LAMBDA x : KeepOnCancel(x, sn, groupKey))
         IN  [queue |-> kept, removed |-> Len(sch) - Len(kept), replaced |-> TRUE,
              saved |-> FALSE]

\* removeScheduledByGroupKey(groupKey): the queue it leaves, the number it
\* returns, whether it assigned a new array and whether it saved
removeScheduledByGroupKey(sch, sn, groupKey) ==
    IF groupKey \in {NullKey, EmptyKey}
    THEN [queue |-> sch, removed |-> 0, replaced |-> FALSE, saved |-> FALSE]
    ELSE LET kept == SelectSeq(sch, LAMBDA x : KeepOnCancel(x, sn, groupKey))
             removed == Len(sch) - Len(kept)
         IN  [queue |-> kept, removed |-> removed, replaced |-> TRUE,
              saved |-> removed # 0]

\* the test of the loop without the comparison of the times
IsDue_IgnoreTime(item, sn, nowMs) == item.id \notin sn

\* if (item.sent) continue; if (nowMs < item.runAtMs) continue;
IsDue(item, sn, nowMs) == item.id \notin sn /\ ~(nowMs < item.runAtMs)

\* the index of the first item at or after i that the loop delivers; 0 when
\* the loop runs to the end of the array
NextDue(arr, i, sn, nowMs) ==
    LET c == { j \in i..Len(arr) : IsDue(arr[j], sn, nowMs) }
    IN  IF c = {} THEN 0 ELSE Min(c)

\* the final filter of a sweep that keeps every job
KeepOnSweep_All(x, sn) == TRUE

\* (x) => !x.sent
KeepOnSweep(x, sn) == x.id \notin sn

\* processScheduled with a reentrancy guard like that of runCheck
SweepGuardTaken_InFlight == \E t \in Sweeps : swPc[t] # "idle"

\* whether processScheduled has a reentrancy guard to respect: it has none
SweepGuardTaken == FALSE

\* The job objects the program still refers to: those of the queue and those
\* of the arrays that suspended sweeps iterate.  The sent field and the
\* delivery count of any other job are forgotten.
LiveIds ==
    Ids(scheduled) \cup UNION { Ids(SweepArr(s)) : s \in { t \in Sweeps : swPc[t] # "idle" } }

Forget(sn, dl) ==
    /\ sent' = sn \cap LiveIds'
    /\ delivered' = [i \in 1..MaxId |-> IF i \in LiveIds' THEN dl[i] ELSE 0]

\* SweepLoop whose final filter is applied to the array it iterated
SweepLoop_FilterOwnArray(s, arr, i, sn, changed, nowMs) ==
    LET j == NextDue(arr, i, sn, nowMs)
    IN  IF j # 0
        THEN /\ swPc' = [swPc EXCEPT ![s] = "deliver"]
             /\ swIdx' = [swIdx EXCEPT ![s] = j]
             /\ swChanged' = [swChanged EXCEPT ![s] = changed]
             /\ swNow' = [swNow EXCEPT ![s] = nowMs]
             /\ swLive' = [swLive EXCEPT ![s] = IF swPc[s] = "idle" THEN TRUE ELSE @]
             /\ UNCHANGED << scheduled, disk, swSnap >>
        ELSE LET kept == SelectSeq(arr, LAMBDA x : KeepOnSweep(x, sn))
                 ch == changed \/ Len(kept) # Len(arr)
             IN  /\ scheduled' = kept
                 /\ Detach(s)
                 /\ swPc' = [swPc EXCEPT ![s] = "idle"]
                 /\ swIdx' = [swIdx EXCEPT ![s] = 0]
                 /\ swChanged' = [swChanged EXCEPT ![s] = FALSE]
                 /\ swNow' = [swNow EXCEPT ![s] = 0]
                 /\ IF ch THEN saveState(flags, kept, sn, cfgPing)
                          ELSE UNCHANGED disk

\* processScheduled from index i of its array arr on: up to the next await,
\* or through the final filter and save.  nowMs and changed are its locals;
\* they are dropped when it returns.
SweepLoop(s, arr, i, sn, changed, nowMs) ==
    LET j == NextDue(arr, i, sn, nowMs)
    IN  IF j # 0
        THEN /\ swPc' = [swPc EXCEPT ![s] = "deliver"]
             /\ swIdx' = [swIdx EXCEPT ![s] = j]
             /\ swChanged' = [swChanged EXCEPT ![s] = changed]
             /\ swNow' = [swNow EXCEPT ![s] = nowMs]
             /\ swLive' = [swLive EXCEPT ![s] = IF swPc[s] = "idle" THEN TRUE ELSE @]
             /\ UNCHANGED << scheduled, disk, swSnap >>
        ELSE LET kept == SelectSeq(scheduled, LAMBDA x : KeepOnSweep(x, sn))
                 ch == changed \/ Len(kept) # Len(scheduled)
             IN  /\ scheduled' = kept
                 /\ Detach(s)
                 /\ swPc' = [swPc EXCEPT ![s] = "idle"]
                 /\ swIdx' = [swIdx EXCEPT ![s] = 0]
                 /\ swChanged' = [swChanged EXCEPT ![s] = FALSE]
                 /\ swNow' = [swNow EXCEPT ![s] = 0]
                 /\ IF ch THEN saveState(flags, kept, sn, cfgPing)
                          ELSE UNCHANGED disk

FreeSweep(s) ==
    /\ swPc[s] = "idle"
    /\ \A r \in Sweeps : swPc[r] = "idle" => s <= r

\* processScheduled is invoked (start-up, or the 30 s timer fires)
SweepStart(s) ==
    /\ FreeSweep(s)
    /\ ~SweepGuardTaken
    /\ SweepLoop(s, scheduled, 1, sent, FALSE, now)
    /\ Forget(sent, delivered)
    /\ UNCHANGED << now, calendar, menu, cfgPing, flags, pollVars, nextId >>

\* await client.channels.fetch(...) and await ch.send(item.message) settle:
\* res is "ok" (sent), "nontext" (no text channel: nothing sent, no error) or
\* "throw" (caught and logged).  Then item.sent = true; changed = true; and
\* the loop goes on.
DeliverSettled(s, res) ==
    /\ swPc[s] = "deliver"
    /\ LET item == SweepArr(s)[swIdx[s]]
       IN  /\ SweepLoop(s, SweepArr(s), swIdx[s] + 1, sent \cup {item.id}, TRUE, swNow[s])
           /\ Forget(sent \cup {item.id},
                     [delivered EXCEPT ![item.id] = IF res = "ok" THEN Bump(@) ELSE @])
    /\ UNCHANGED << now, calendar, menu, cfgPing, flags, pollVars, nextId >>

(* --------------------------- selection protocol ------------------------ *)

\* what Number() makes of a string that is not a numeral
NaN == 0 - 1000
\* a part of the custom id that is not a numeral, and a part that is missing
Garbage == 0 - 2000
Missing == 0 - 3000
\* the value of the sentinel option "No valid hours"
HourNone == 0 - 4000

Number(x) == IF x \in {Garbage, Missing, HourNone} THEN NaN ELSE x

\* >= , < and > of two numbers either of which may be NaN
Ge(a, b) == a # NaN /\ b # NaN /\ a >= b
Lt(a, b) == a # NaN /\ b # NaN /\ a < b
Gt(a, b) == a # NaN /\ b # NaN /\ a > b

Minus(a, b) == IF a = NaN THEN NaN ELSE a - b

\* Date.UTC(yyyy, mm - 1, dd, hour, 0, 0, 0) of the date with day number d
DateUTC(d, hour) == IF d = NaN \/ hour = NaN THEN NaN ELSE d * DAY + hour * HOUR

Guilds == {"g1"}
Channels == {"c1"}
Users == {"u1", "u2"}

\* `aoo:${interaction.guildId}:${channelId}:${interaction.user.id}`
GroupKeyOf(guild, channel, user) == << "aoo", guild, channel, user >>

Tok(s, e, d) == [start |-> s, end |-> e, date |-> d]

\* The custom ids aoo_hour|start|end|date a selection may carry: a window of
\* day 0 from 01:00 to 03:00, a window of day 0 that ends at 00:30, a
\* non-numeric start, a non-numeric date and a missing date.
TokNew == Tok(HOUR, 3 * HOUR, 0)
TokOld == Tok(0, THIRTY_MIN, 0)
TokBadStart == Tok(Garbage, 3 * HOUR, 0)
TokBadDate == Tok(HOUR, 3 * HOUR, Garbage)
TokNoDate == Tok(HOUR, 3 * HOUR, Missing)

Sel(tok, hourStr, canUse) == [tok |-> tok, hourStr |-> hourStr, canUse |-> canUse]

\* the selections a user may submit: a token, the value of the chosen
\* option and the result of canUseCommands(interaction.member)
Selections ==
    { Sel(TokNew, 1, TRUE), Sel(TokNew, 0, TRUE), Sel(TokNew, HourNone, TRUE),
      Sel(TokNew, 1, FALSE), Sel(TokOld, 0, TRUE),
      Sel(TokBadStart, 1, TRUE), Sel(TokBadDate, 1, TRUE), Sel(TokNoDate, 1, TRUE) }

\* the window test with the start of the window excluded
InWindow_StartExcluded(aooStartMs, startMs, endMs) ==
    Gt(aooStartMs, startMs) /\ Lt(aooStartMs, endMs)

\* if (!(aooStartMs >= startMs && aooStartMs < endMs))
InWindow(aooStartMs, startMs, endMs) == Ge(aooStartMs, startMs) /\ Lt(aooStartMs, endMs)

\* the comparison with >= in place of >
InFuture_OrNow(t, nowMs) == Ge(t, nowMs)

\* if (thirtyMs > nowMs), if (tenMs > nowMs)
InFuture(t, nowMs) == Gt(t, nowMs)

\* buildHourSelect({ startMs, endMs, dateISO }): the values of the options of
\* the hour menu.  The value String(h) of an hour is represented by h, the
\* value "none" by HourNone.
buildHourSelect(tok) ==
    LET options == { h \in 0..23 :
                       LET t == DateUTC(Number(tok.date), h)
                       IN  Ge(t, Number(tok.start)) /\ Lt(t, Number(tok.end)) }
    IN  IF options # {} THEN options ELSE {HourNone}

\* scheduledCount++
CountUp(n) == n + 1

\* the hour-chosen step from const nowMs = Date.now() to its reply: the queue
\* it leaves and the count it reports.  Nothing is awaited in between.
HourStep(sch, sn, nid, nowMs, guild, channel, user, tok, hourStr) ==
    LET aooStartMs == DateUTC(Number(tok.date), Number(hourStr))
        thirtyMs == Minus(aooStartMs, THIRTY_MIN)
        tenMs == Minus(aooStartMs, TEN_MIN)
        groupKey == GroupKeyOf(guild, channel, user)
        r == removeScheduledByGroupKey(sch, sn, groupKey)
        first == InFuture(thirtyMs, nowMs)
        second == InFuture(tenMs, nowMs)
        q1 == IF first
              THEN schedulePing(r.queue, nid + 1, channel, thirtyMs,
                                << "30 minutes", aooStartMs >>, groupKey)
              ELSE r.queue
        c1 == IF first THEN CountUp(0) ELSE 0
        q2 == IF second
              THEN schedulePing(q1, nid + (Len(q1) - Len(r.queue)) + 1, channel, tenMs,
                                << "10 minutes", aooStartMs >>, groupKey)
              ELSE q1
        c2 == IF second THEN CountUp(c1) ELSE c1
    IN  [ queue |-> q2, created |-> Len(q2) - Len(r.queue),
          replaced |-> r.replaced, saved |-> r.saved \/ Len(q2) # Len(r.queue),
          scheduledCount |-> c2 ]

\* whether the hour-chosen step gets as far as const nowMs = Date.now()
Accepted(sel) ==
    /\ sel.canUse
    /\ sel.hourStr \notin {Missing, HourNone}
    /\ sel.tok.date # Missing
    /\ InWindow(DateUTC(Number(sel.tok.date), Number(sel.hourStr)),
                Number(sel.tok.start), Number(sel.tok.end))

\* what the step answers: interaction.reply or interaction.update, with the
\* count it reports
HourReply(sch, sn, nid, nowMs, guild, channel, user, sel) ==
    CASE ~sel.canUse -> << "no permission", 0 >>
      [] sel.hourStr \in {Missing, HourNone} -> << "No valid hour selected.", 0 >>
      [] sel.tok.date = Missing -> << "Error handling selection.", 0 >>
      [] ~Accepted(sel) -> << "That hour is outside the AOO event window.", 0 >>
      [] OTHER ->
           LET h == HourStep(sch, sn, nid, nowMs, guild, channel, user,
                             sel.tok, sel.hourStr)
           IN  IF h.scheduledCount = 0
               THEN << "Both reminder times are already in the past", 0 >>
               ELSE << "Scheduled reminder(s)", h.scheduledCount >>

\* interactionCreate with custom id aoo_hour|...
HourChosen(guild, channel, user, sel) ==
    LET h == HourStep(scheduled, sent, nextId, now, guild, channel, user,
                      sel.tok, sel.hourStr)
    IN  IF Accepted(sel)
        THEN /\ nextId + h.created <= MaxId
             /\ scheduled' = h.queue
             /\ nextId' = nextId + h.created
             /\ IF h.replaced THEN Detach(0) ELSE UNCHANGED << swLive, swSnap >>
             /\ IF h.saved THEN saveState(flags, h.queue, sent, cfgPing)
                           ELSE UNCHANGED disk
             /\ UNCHANGED << swPc, swNow, swIdx, swChanged >>
             /\ Forget(sent, delivered)
             /\ UNCHANGED << now, calendar, menu, cfgPing, flags, pollVars >>
        ELSE UNCHANGED vars

(* ------------------------------ the menus ------------------------------ *)

\* dates.slice(0, 25)
MaxDates == 25

\* listUtcDatesInRange(start, end): the days from the day of start up to, and
\* not including, the day of end.  A day is represented by its number, and so
\* is its isoDateUTC string.
listUtcDatesInRange(start, end) ==
    LET d == isoDateUTC(start)
        endDay == isoDateUTC(end)
    IN  IF d < endDay THEN [i \in 1..(endDay - d) |-> d + (i - 1)] ELSE << >>

\* buildDateSelect({ startMs, endMs, dates }): the values of the options of
\* the date menu
buildDateSelect(dates) ==
    { dates[i] : i \in { j \in 1..Len(dates) : j <= MaxDates } }

Win(s, e) == [start |-> s, end |-> e]

\* The windows getNextAooRunEvent may return: within one day, across
\* midnight, whole days, ending at noon, ten minutes before midnight, from
\* 00:30 to midnight, and of 25, 26 and 30 days.
Windows ==
    { Win(HOUR, 3 * HOUR), Win(23 * HOUR, DAY + 2 * HOUR), Win(0, 2 * DAY),
      Win(12 * HOUR, 2 * DAY + 12 * HOUR), Win(DAY - TEN_MIN, DAY),
      Win(THIRTY_MIN, DAY), Win(2 * DAY, 27 * DAY), Win(0, 26 * DAY),
      Win(3 * DAY + 5 * HOUR, 28 * DAY + 5 * HOUR), Win(0, 30 * DAY) }

\* no menu has been posted
NoMenu == [stage |-> "none", tok |-> Tok(Missing, Missing, Missing), options |-> {}]

\* !aoo: the reply with the date menu, or the reply that the event has no
\* selectable dates
Aoo(w) ==
    /\ w.end > now
    /\ LET dates == listUtcDatesInRange(w.start, w.end)
       IN  menu' = IF Len(dates) = 0
                   THEN [stage |-> "nodates", tok |-> Tok(w.start, w.end, Missing),
                         options |-> {}]
                   ELSE [stage |-> "date", tok |-> Tok(w.start, w.end, Missing),
                         options |-> buildDateSelect(dates)]
    /\ UNCHANGED << now, calendar, cfgPing, flags, disk, pollVars, sweepVars, queueVars >>

\* interactionCreate with custom id aoo_date|...: the message is updated to
\* the hour menu of the chosen date
DateChosen(dateISO) ==
    /\ menu.stage = "date"
    /\ dateISO \in menu.options
    /\ LET tok == Tok(menu.tok.start, menu.tok.end, dateISO)
       IN  menu' = [stage |-> "hour", tok |-> tok, options |-> buildHourSelect(tok)]
    /\ UNCHANGED << now, calendar, cfgPing, flags, disk, pollVars, sweepVars, queueVars >>

(* -------------------------------- clock -------------------------------- *)

\* the instants the clock of the reminder-queue specification visits: the
\* two reminder times of each start a selection may choose
QueueInstants ==
    { t \in UNION { { DateUTC(Number(sel.tok.date), Number(sel.hourStr)) - d :
                        d \in {TEN_MIN, THIRTY_MIN} } :
                      sel \in { x \in Selections : Accepted(x) } } : t > 0 }

\* time passes, by any amount
Tick ==
    /\ \E t \in QueueInstants : t > now /\ now' = t
    /\ UNCHANGED << calendar, menu, cfgPing, flags, disk, pollVars, sweepVars, queueVars >>

\* the instants at which the trigger of some milestone of ev changes
Boundaries(ev) ==
    IF getEventType(ev) = "ark_registration"
    THEN { ev.start, addHours(ev.end, -6), ev.end }
    ELSE IF getEventType(ev) = "mge"
    THEN { addHours(ev.start, -48), addHours(ev.start, -24), ev.start,
           addHours(ev.end, 24) }
    ELSE {}

\* the instants the clock of the milestone specification visits: each
\* boundary of an event of the calendar, and the instant just before it
Instants(cal) ==
    UNION { { b - 1, b } : b \in UNION { Boundaries(cal[i]) : i \in 1..Len(cal) } }

\* time passes, by any amount
AdvanceClock ==
    /\ \E t \in Instants(calendar) : t > now /\ now' = t
    /\ UNCHANGED << calendar, menu, cfgPing, flags, disk, pollVars, sweepVars, queueVars >>

(* ---------------------------- specifications --------------------------- *)

AllKeys ==
    { FlagKey(cal[i], m) : << cal, i, m >> \in
        { x \in Calendars \X (1..3) \X (1..3) : x[2] <= Len(x[1]) } }

InitCommon ==
    /\ now = 0
    /\ menu = NoMenu
    /\ cfgPing = Null
    /\ flags = {}
    /\ scheduled = << >>
    /\ sent = {}
    /\ disk = Serialize({}, << >>, {}, Null)
    /\ runCheckRunning = FALSE
    /\ pollPc = [p \in Polls |-> "idle"]
    /\ pollNow = [p \in Polls |-> 0]
    /\ pollPos = [p \in Polls |-> 0]
    /\ pollLog = [p \in Polls |-> << >>]
    /\ pollOutcome = [p \in Polls |-> "none"]
    /\ callTick = 0
    /\ sendCount = [k \in AllKeys |-> 0]
    /\ nextId = 0
    /\ swPc = [s \in Sweeps |-> "idle"]
    /\ swNow = [s \in Sweeps |-> 0]
    /\ swLive = [s \in Sweeps |-> FALSE]
    /\ swSnap = [s \in Sweeps |-> << >>]
    /\ swIdx = [s \in Sweeps |-> 0]
    /\ swChanged = [s \in Sweeps |-> FALSE]
    /\ delivered = [i \in 1..MaxId |-> 0]

\* the milestone engine: polls, the channel setting and the clock
Init == InitCommon /\ calendar \in Calendars

Next ==
    \/ \E p \in Polls : RunCheck(p)
    \/ \E p \in Polls, res \in {"text", "nontext", "throw"} : ChannelFetched(p, res)
    \/ \E p \in Polls, ok \in BOOLEAN : EventsFetched(p, ok)
    \/ \E p \in Polls, ok \in BOOLEAN : SendSettled(p, ok)
    \/ \E ch \in Channels : SetPingChannel(ch)
    \/ AdvanceClock

Spec == Init /\ [][Next]_vars

\* the reminder queue: sweeps, selections and the clock
InitQueue == InitCommon /\ calendar = << >>

NextQueue ==
    \/ \E s \in Sweeps : SweepStart(s)
    \/ \E s \in Sweeps, res \in {"ok", "nontext", "throw"} : DeliverSettled(s, res)
    \/ \E g \in Guilds, c \in Channels, u \in Users, sel \in Selections :
          HourChosen(g, c, u, sel)
    \/ Tick

SpecQueue == InitQueue /\ [][NextQueue]_vars

\* the whole program on one calendar: one poll, one sweep and one user's
\* selections at a time, with the channel setting and the clock
InitAll ==
    /\ InitCommon
    /\ calendar = << Ev("r2", "ark_registration", DAY + 12 * HOUR, DAY + 14 * HOUR),
                     Ev("x1", "ark_battle", DAY, 2 * DAY) >>

NextAll ==
    \/ RunCheck(1)
    \/ \E res \in {"text", "nontext", "throw"} : ChannelFetched(1, res)
    \/ \E ok \in BOOLEAN : EventsFetched(1, ok)
    \/ \E ok \in BOOLEAN : SendSettled(1, ok)
    \/ \E ch \in Channels : SetPingChannel(ch)
    \/ AdvanceClock
    \/ SweepStart(1)
    \/ \E res \in {"ok", "nontext", "throw"} : DeliverSettled(1, res)
    \/ \E sel \in Selections : HourChosen("g1", "c1", "u1", sel)
    \/ Tick

SpecAll == InitAll /\ [][NextAll]_vars

\* the selection flow up to the hour menu: the !aoo command and the date menu
InitMenu == InitCommon /\ calendar = << >>

NextMenu ==
    \/ \E w \in Windows : Aoo(w)
    \/ \E d \in 0..(30 + 1) : DateChosen(d)

SpecMenu == InitMenu /\ [][NextMenu]_vars

(* ============================ the claims =============================== *)

Range(f) == { f[i] : i \in DOMAIN f }
Positions == 1..(3 * Len(calendar))
Active(p) == pollPc[p] # "idle"

(* ------------------------------------------------------------------------ *)
(* C1.  Idempotency of the milestone engine: each flag key accounts for at  *)
(* most one successful send, a key is flagged exactly when its announcement *)
(* has been sent, no send is ever in flight for a key whose flag is set,    *)
(* and no step sends the announcement of a key whose flag is already set.   *)
(* ------------------------------------------------------------------------ *)
C1_AtMostOnce ==
    /\ \A k \in AllKeys : sendCount[k] <= 1 /\ (k \in flags <=> sendCount[k] = 1)
    /\ \A p \in Polls : pollPc[p] = "send" => PosKey(calendar, pollPos[p]) \notin flags

C1_NoResend == [][\A k \in flags : sendCount'[k] = sendCount[k]]_vars

C1_Idempotent == []C1_AtMostOnce /\ C1_NoResend

\* A poll cycle has run to its end without sending anything although the
\* trigger of a milestone held at its now: the flag of that milestone was set.
C1_Witness ==
    \E p \in Polls : \E q \in Positions :
        /\ pollOutcome[p] = "done"
        /\ pollLog[p] = << >>
        /\ Typed(PosEvent(calendar, q))
        /\ Trigger(PosEvent(calendar, q), PosMilestone(q), pollNow[p])
        /\ sendCount[PosKey(calendar, q)] = 1

(* ------------------------------------------------------------------------ *)
(* C2.  Catch-up.  The keys a finished cycle p announced for event i, in    *)
(* order; no flag of event i was set when the cycle started if every flag   *)
(* of the event that is set now is one the cycle set itself.                *)
(* ------------------------------------------------------------------------ *)
EventKeys(i) == { FlagKey(calendar[i], m) : m \in 1..3 }
EventLog(p, i) == SelectSeq(pollLog[p], LAMBDA k : k \in EventKeys(i))
FirstPollPastEnd(p, i) ==
    /\ pollOutcome[p] = "done"
    /\ EventKeys(i) \cap flags \subseteq Range(pollLog[p])
    /\ getEventType(calendar[i]) = "ark_registration"
    /\ pollNow[p] >= calendar[i].start
    /\ pollNow[p] >= addHours(calendar[i].end, -6)
    /\ pollNow[p] >= calendar[i].end

\* C2 as claimed: the first poll, run past all three boundaries of a
\* registration-window event, announces open, warning and closed, in that order.
C2_ThreeInOrder ==
    \A p \in Polls : \A i \in 1..Len(calendar) :
        FirstPollPastEnd(p, i) =>
            EventLog(p, i) = << FlagKey(calendar[i], 1), FlagKey(calendar[i], 2),
                                FlagKey(calendar[i], 3) >>

\* C2 as amended: that poll announces exactly open and then closed, each
\* once; the warning, whose trigger requires now < end, is not sent and its
\* flag stays unset.
C2_OpenThenClosed ==
    \A p \in Polls : \A i \in 1..Len(calendar) :
        FirstPollPastEnd(p, i) =>
            /\ EventLog(p, i) = << FlagKey(calendar[i], 1), FlagKey(calendar[i], 3) >>
            /\ sendCount[FlagKey(calendar[i], 1)] = 1
            /\ sendCount[FlagKey(calendar[i], 3)] = 1
            /\ sendCount[FlagKey(calendar[i], 2)] = 0
            /\ FlagKey(calendar[i], 2) \notin flags

C2_Witness ==
    \E p \in Polls : \E i \in 1..Len(calendar) :
        /\ FirstPollPastEnd(p, i)
        /\ Len(EventLog(p, i)) = 2

(* ------------------------------------------------------------------------ *)
(* C6.  Single-flight polling: at most one invocation of runCheck is in     *)
(* flight, the guard is set exactly while one is, and an invocation made    *)
(* while one is in flight sends nothing, sets no flag, writes nothing and   *)
(* leaves the guard and the running invocation as they are.                 *)
(* ------------------------------------------------------------------------ *)
C6_OneActive ==
    /\ Cardinality({ p \in Polls : Active(p) }) <= 1
    /\ runCheckRunning <=> \E p \in Polls : Active(p)

C6_ReentrantNoOp ==
    [][(callTick' # callTick /\ \E p \in Polls : Active(p)) =>
          UNCHANGED << flags, sendCount, disk, runCheckRunning, pollPc, pollNow,
                       pollPos, pollLog, cfgPing, scheduled, sent >>]_vars

C6_SingleFlight == []C6_OneActive /\ C6_ReentrantNoOp

\* an invocation was turned away by the guard, and a cycle is suspended in a send
C6_Witness ==
    \E p, r \in Polls : pollPc[p] = "send" /\ pollOutcome[r] = "skipped"

(* ------------------------------------------------------------------------ *)
(* C8.  Poll delivery failure: the step in which a send fails ends the      *)
(* cycle: no flag is set, nothing is sent or written, the failed key stays  *)
(* unset, the flags set earlier in the cycle stay set and the guard is      *)
(* released; and a cycle that runs to its end leaves every milestone whose  *)
(* trigger holds at its now flagged, each flagged key sent exactly once.    *)
(* ------------------------------------------------------------------------ *)
C8_FailStops ==
    [][\A p \in Polls :
          (pollPc[p] = "send" /\ pollOutcome'[p] = "failed") =>
              /\ UNCHANGED << flags, sendCount, disk, pollLog >>
              /\ PosKey(calendar, pollPos[p]) \notin flags'
              /\ Range(pollLog[p]) \subseteq flags'
              /\ pollPc'[p] = "idle"
              /\ ~runCheckRunning']_vars

C8_RetryCompletes ==
    /\ \A p \in Polls : \A q \in Positions :
          ( /\ pollOutcome[p] = "done"
            /\ Typed(PosEvent(calendar, q))
            /\ Trigger(PosEvent(calendar, q), PosMilestone(q), pollNow[p]) )
          => PosKey(calendar, q) \in flags
    /\ \A k \in AllKeys : k \in flags => sendCount[k] = 1

C8_DeliveryFailure == C8_FailStops /\ []C8_RetryCompletes

\* a cycle has ended in a failed send after it had announced something
C8_Witness ==
    \E p \in Polls : pollOutcome[p] = "failed" /\ pollLog[p] # << >>

(* ------------------------------------------------------------------------ *)
(* C10.  Missing configuration: an invocation of runCheck made while no     *)
(* announcement channel is configured starts no cycle, sends nothing, sets  *)
(* no flag and leaves the queue, the configuration and the file unchanged.  *)
(* ------------------------------------------------------------------------ *)
C10_NoChannelNoOp ==
    [][(callTick' # callTick /\ cfgPing = Null) =>
          /\ UNCHANGED << flags, sendCount, disk, pollPc, pollNow, pollPos, pollLog,
                          cfgPing, scheduled, sent, nextId >>
          /\ \A p \in Polls : ~Active(p)'
          /\ ~runCheckRunning']_vars

C10_Witness ==
    \E p \in Polls : pollOutcome[p] = "nochannel" /\ cfgPing = Null /\ now > 0

(* ======================= claims on the reminder queue =================== *)

\* the jobs of the queue sch that are unsent and belong to group g
UnsentOf(sch, sn, g) ==
    { sch[i].id : i \in { j \in 1..Len(sch) : sch[j].id \notin sn /\ sch[j].groupKey = g } }

GroupKeys == { GroupKeyOf(g, c, u) : << g, c, u >> \in Guilds \X Channels \X Users }

\* the start of the selection sel, once it is accepted
StartOf(sel) == sel.tok.date * DAY + sel.hourStr * HOUR

\* the step is an accepted hour-chosen step of user u with selection sel
\* that changes the state.  Such a step leaves the clock and the sweeps'
\* positions alone and adds jobs of the user's group key only.
Chosen(u, sel) ==
    /\ Accepted(sel)
    /\ now' = now
    /\ swPc' = swPc
    /\ vars' # vars
    /\ \A i \in 1..Len(scheduled') :
          scheduled'[i].id > nextId => scheduled'[i].groupKey = GroupKeyOf("g1", "c1", u)
    /\ HourChosen("g1", "c1", u, sel)

\* the job the sweep s is suspended delivering
Current(s) == SweepArr(s)[swIdx[s]]

(* ------------------------------------------------------------------------ *)
(* C3.  Overwrite atomicity: an accepted hour-chosen step leaves, for its   *)
(* group key, exactly the jobs it has just created as the unsent jobs of    *)
(* the queue, and none of the earlier unsent ones; in every state the       *)
(* unsent jobs of a group key are at most two, all of one selection (one    *)
(* start, distinct offsets): no state between a removal and the insertion   *)
(* is ever seen.                                                            *)
(* ------------------------------------------------------------------------ *)
C3_StepLeavesNew ==
    [][\A u \in Users : \A sel \in Selections :
          Chosen(u, sel) =>
              LET g == GroupKeyOf("g1", "c1", u)
              IN  /\ UnsentOf(scheduled', sent', g) = (nextId + 1)..nextId'
                  /\ UnsentOf(scheduled, sent, g) \cap Ids(scheduled') = {}]_vars

C3_OneSetPerGroup ==
    \A g \in GroupKeys :
        /\ Cardinality(UnsentOf(scheduled, sent, g)) <= 2
        /\ \A i, j \in 1..Len(scheduled) :
              ( /\ i # j
                /\ scheduled[i].id \in UnsentOf(scheduled, sent, g)
                /\ scheduled[j].id \in UnsentOf(scheduled, sent, g) )
              => /\ scheduled[i].message[2] = scheduled[j].message[2]
                 /\ scheduled[i].message[1] # scheduled[j].message[1]

C3_Overwrite == C3_StepLeavesNew /\ []C3_OneSetPerGroup

\* Nothing is due before the first reminder time, so at instant 0 no sweep
\* has evicted anything: the jobs 1 and 2 were removed by an overwrite, and
\* the queue holds the two jobs of the selection that followed it.
C3_Witness ==
    /\ now = 0
    /\ nextId = 4
    /\ Ids(scheduled) = {3, 4}
    /\ \E g \in GroupKeys : UnsentOf(scheduled, sent, g) = {3, 4}

(* ------------------------------------------------------------------------ *)
(* C4.  Past-offset elision and count: for every accepted selection, the    *)
(* hour-chosen step creates the job of an offset exactly when start minus   *)
(* the offset is strictly after now, the count it reports is the number of  *)
(* jobs it appends, and when neither offset is in the future it creates     *)
(* nothing and reports 0; the steps taken append exactly those jobs.        *)
(* ------------------------------------------------------------------------ *)
Expected(sel, t) ==
    (IF StartOf(sel) - THIRTY_MIN > t
        THEN { << StartOf(sel) - THIRTY_MIN, << "30 minutes", StartOf(sel) >> >> } ELSE {})
    \cup
    (IF StartOf(sel) - TEN_MIN > t
        THEN { << StartOf(sel) - TEN_MIN, << "10 minutes", StartOf(sel) >> >> } ELSE {})

\* the jobs of the queue sch with an id above n, as (runAtMs, message) pairs
NewJobs(sch, n) ==
    { << sch[i].runAtMs, sch[i].message >> : i \in { j \in 1..Len(sch) : sch[j].id > n } }

C4_Count ==
    \A u \in Users : \A sel \in { x \in Selections : Accepted(x) } :
        LET h == HourStep(scheduled, sent, nextId, now, "g1", "c1", u, sel.tok, sel.hourStr)
            reply == HourReply(scheduled, sent, nextId, now, "g1", "c1", u, sel)
        IN  /\ NewJobs(h.queue, nextId) = Expected(sel, now)
            /\ reply[2] = Cardinality(Expected(sel, now))
            /\ reply[2] = Len(h.queue) - Len(removeScheduledByGroupKey(
                                                scheduled, sent, GroupKeyOf("g1", "c1", u)).queue)
            /\ reply[2] \in 0..2
            /\ (reply[1] = "Both reminder times are already in the past") <=>
                  (StartOf(sel) - THIRTY_MIN <= now /\ StartOf(sel) - TEN_MIN <= now)
            /\ (StartOf(sel) - TEN_MIN <= now) => (h.queue = removeScheduledByGroupKey(
                                                scheduled, sent, GroupKeyOf("g1", "c1", u)).queue)

C4_Step ==
    [][\A u \in Users : \A sel \in Selections :
          Chosen(u, sel) =>
              /\ NewJobs(scheduled', nextId) = Expected(sel, now)
              /\ nextId' - nextId =
                    HourReply(scheduled, sent, nextId, now, "g1", "c1", u, sel)[2]
              /\ Len(scheduled') =
                    Len(SelectSeq(scheduled', LAMBDA x : x.id <= nextId))
                    + HourReply(scheduled, sent, nextId, now, "g1", "c1", u, sel)[2]]_vars

C4_ElisionAndCount == []C4_Count /\ C4_Step

\* the only job ever created is a ten-minute reminder: the selection that
\* created it found its thirty-minute offset not in the future
C4_Witness ==
    /\ nextId = 1
    /\ Len(scheduled) = 1
    /\ scheduled[1].message[1] = "10 minutes"
    /\ scheduled[1].runAtMs > now

(* ------------------------------------------------------------------------ *)
(* C5.  Sweep eviction: in the state a sweep leaves when it returns, no job *)
(* of the queue in memory or on disk is marked sent, and no job of the      *)
(* array it iterated whose time had come at the sweep's now is in the queue *)
(* in memory or on disk, whatever its delivery did.                         *)
(* ------------------------------------------------------------------------ *)
DiskIds == { disk.scheduled[i].id : i \in DOMAIN disk.scheduled }

SweepReturns(s) ==
    \/ swPc[s] = "deliver" /\ swPc'[s] = "idle"
    \/ SweepStart(s) /\ swPc'[s] = "idle"

C5_Eviction ==
    [][\A s \in Sweeps :
          SweepReturns(s) =>
              LET arr == IF swPc[s] = "deliver" THEN SweepArr(s) ELSE scheduled
                  t == IF swPc[s] = "deliver" THEN swNow[s] ELSE now
                  due == { arr[i].id : i \in { j \in 1..Len(arr) : arr[j].runAtMs <= t } }
              IN  /\ \A i \in 1..Len(scheduled') : scheduled'[i].id \notin sent'
                  /\ \A i \in DOMAIN disk'.scheduled : ~disk'.scheduled[i].sent
                  /\ due \cap Ids(scheduled') = {}
                  /\ due \cap DiskIds' = {}]_vars

\* A sweep is still delivering a thirty-minute job that is no longer in the
\* queue, while the ten-minute job of the same selection is there, unsent:
\* an overwrite would have removed both, so another sweep delivered the job,
\* returned and evicted it.
C5_Witness ==
    \E s \in Sweeps :
        /\ swPc[s] = "deliver"
        /\ Current(s).message[1] = "30 minutes"
        /\ Current(s).id \notin Ids(scheduled)
        /\ Current(s).id \notin DiskIds
        /\ \E i \in 1..Len(scheduled) :
              /\ scheduled[i].id = Current(s).id + 1
              /\ scheduled[i].groupKey = Current(s).groupKey
              /\ scheduled[i].id \notin sent

(* ------------------------------------------------------------------------ *)
(* C7.  Sweep duplicate-send hazard: while a sweep is suspended delivering  *)
(* a job that is unsent and still queued, a second sweep can start, and it  *)
(* then finds that job unsent and due and suspends in a delivery of its     *)
(* own with that job still ahead of it.  A job delivered twice is reached.  *)
(* ------------------------------------------------------------------------ *)
C7_Hazard ==
    \A s, t \in Sweeps :
        ( /\ swPc[s] = "deliver"
          /\ Current(s).id \notin sent
          /\ Current(s).id \in Ids(scheduled)
          /\ FreeSweep(t) )
        => /\ IsDue(Current(s), sent, now)
           /\ ENABLED ( /\ SweepStart(t)
                        /\ swPc'[t] = "deliver"
                        /\ \E i \in swIdx'[t]..Len(scheduled) :
                              scheduled[i].id = Current(s).id )

\* a job has been delivered successfully more than once
C7_Witness == \E i \in 1..MaxId : delivered[i] = 2

(* ------------------------------------------------------------------------ *)
(* C9.  cancelGroup semantics: for every queue reached and every group key, *)
(* removeScheduledByGroupKey removes exactly the unsent jobs of that key,   *)
(* keeps all other jobs in their order, returns the number removed and      *)
(* saves exactly when that number is positive; with a null or empty key it  *)
(* returns 0, saves nothing and leaves the queue as it is.  The accepted    *)
(* hour-chosen steps treat the earlier jobs of the queue in that way.       *)
(* ------------------------------------------------------------------------ *)
\* the subsequence of sch of the jobs whose id is not in S
Without(sch, S) == SelectSeq(sch, LAMBDA x : x.id \notin S)

C9_Function ==
    /\ \A g \in GroupKeys \cup { GroupKeyOf("g1", "c1", "nobody") } :
          LET r == removeScheduledByGroupKey(scheduled, sent, g)
          IN  /\ r.queue = Without(scheduled, UnsentOf(scheduled, sent, g))
              /\ r.removed = Cardinality(UnsentOf(scheduled, sent, g))
              /\ r.saved <=> r.removed > 0
              /\ \A i \in 1..Len(scheduled) :
                    (scheduled[i].id \in sent \/ scheduled[i].groupKey # g)
                       => \E j \in 1..Len(r.queue) : r.queue[j] = scheduled[i]
    /\ \A g \in {NullKey, EmptyKey} :
          LET r == removeScheduledByGroupKey(scheduled, sent, g)
          IN  r.queue = scheduled /\ r.removed = 0 /\ ~r.saved /\ ~r.replaced

C9_Step ==
    [][\A u \in Users : \A sel \in Selections :
          Chosen(u, sel) =>
              LET g == GroupKeyOf("g1", "c1", u)
                  gone == UnsentOf(scheduled, sent, g)
              IN  /\ SelectSeq(scheduled', LAMBDA x : x.id <= nextId)
                        = Without(scheduled, gone)
                  /\ \A i \in 1..Len(scheduled) :
                        scheduled[i].id \notin gone =>
                            (scheduled[i].id \in sent' <=> scheduled[i].id \in sent)
                  /\ (gone # {}) => disk' = Serialize(flags, scheduled', sent', cfgPing)]_vars

C9_CancelGroup == []C9_Function /\ C9_Step

\* A sweep is delivering an unsent job that is no longer in the queue: it
\* was cancelled.  A sent job of the same group key is still in the queue,
\* and so is a job of another group key.
C9_Witness ==
    \E s \in Sweeps :
        /\ swPc[s] = "deliver"
        /\ Current(s).id \notin sent
        /\ Current(s).id \notin Ids(scheduled)
        /\ \E i, j \in 1..Len(scheduled) :
              /\ scheduled[i].id \in sent
              /\ scheduled[i].groupKey = Current(s).groupKey
              /\ scheduled[j].groupKey # Current(s).groupKey

(* ==================== further claims on the milestone engine ============ *)

(* ------------------------------------------------------------------------ *)
(* C11.  Trigger conformance: a cycle suspends in a send, and a send        *)
(* succeeds, only for a milestone whose flag is unset and whose trigger,    *)
(* as the table states it, holds at the cycle's now; every key a cycle has  *)
(* announced had its trigger hold at that now, in the order of the          *)
(* milestones; and a cycle that ran to its end has left no untriggered      *)
(* milestone announced and no triggered milestone unflagged.                *)
(* ------------------------------------------------------------------------ *)
\* the trigger table, in 10-minute units
Table(type, m, start, end, t) ==
    IF type = "ark_registration"
    THEN (m = 1 /\ t >= start)
         \/ (m = 2 /\ end - 6 * 6 <= t /\ t < end)
         \/ (m = 3 /\ t >= end)
    ELSE (m = 1 /\ t >= end + 24 * 6)
         \/ (m = 2 /\ start - 48 * 6 <= t /\ t < start - 24 * 6)
         \/ (m = 3 /\ start - 24 * 6 <= t /\ t < start)

TableAt(q, t) ==
    LET ev == PosEvent(calendar, q)
    IN  /\ ev.type \in {"ark_registration", "mge"}
        /\ Table(ev.type, PosMilestone(q), ev.start, ev.end, t)

\* the positions whose key is k
PositionsOf(k) ==
    { q \in Positions : Typed(PosEvent(calendar, q)) /\ PosKey(calendar, q) = k }

C11_State ==
    \A p \in Polls :
        /\ pollPc[p] = "send" =>
              /\ TableAt(pollPos[p], pollNow[p])
              /\ PosKey(calendar, pollPos[p]) \notin flags
        /\ \A n \in 1..Len(pollLog[p]) :
              /\ \E q \in PositionsOf(pollLog[p][n]) : TableAt(q, pollNow[p])
              /\ \A n2 \in 1..Len(pollLog[p]) :
                    n < n2 => \E q \in PositionsOf(pollLog[p][n]) :
                                 \E q2 \in PositionsOf(pollLog[p][n2]) : q < q2
        /\ pollOutcome[p] = "done" =>
              \A q \in Positions :
                  Typed(PosEvent(calendar, q)) =>
                      /\ TableAt(q, pollNow[p]) => PosKey(calendar, q) \in flags
                      /\ ~TableAt(q, pollNow[p]) =>
                            \A n \in 1..Len(pollLog[p]) : pollLog[p][n] # PosKey(calendar, q)

C11_Send ==
    [][\A k \in AllKeys :
          sendCount'[k] # sendCount[k] =>
              /\ k \notin flags
              /\ \E p \in Polls :
                    /\ pollPc[p] = "send"
                    /\ PosKey(calendar, pollPos[p]) = k
                    /\ TableAt(pollPos[p], pollNow[p])]_vars

C11_TriggerConformance == []C11_State /\ C11_Send

\* a cycle run at end - 6h, with the open flag set earlier, has announced the
\* warning and nothing else; and the deferred-window case: a cycle has
\* announced the closing of a deferred-window event
C11_Witness ==
    \/ \E p \in Polls : \E i \in 1..Len(calendar) :
          /\ calendar[i].type = "ark_registration"
          /\ pollOutcome[p] = "done"
          /\ pollNow[p] = calendar[i].end - 6 * 6
          /\ pollLog[p] = << FlagKey(calendar[i], 2) >>
          /\ FlagKey(calendar[i], 1) \in flags
    \/ \E p \in Polls : \E i \in 1..Len(calendar) :
          /\ calendar[i].type = "mge"
          /\ pollOutcome[p] = "done"
          /\ pollLog[p] = << FlagKey(calendar[i], 3) >>

(* ------------------------------------------------------------------------ *)
(* C12.  Flag monotonicity: no step of a poll, a sweep, a selection or the  *)
(* channel command removes a milestone flag from the state in memory, nor   *)
(* from the persisted document.                                             *)
(* ------------------------------------------------------------------------ *)
C12_FlagsMonotone ==
    [][flags \subseteq flags' /\ disk.flags \subseteq disk'.flags]_vars

\* a flag is set and persisted while a sweep is delivering a reminder that a
\* selection scheduled
C12_Witness ==
    /\ flags # {}
    /\ disk.flags = flags
    /\ swPc[1] = "deliver"
    /\ nextId > 0

(* ================== further claims on the reminder queue ================ *)

\* the step is the hour-chosen step of user u with selection sel, accepted or
\* not, and changes the state
Submitted(u, sel) ==
    /\ now' = now
    /\ swPc' = swPc
    /\ vars' # vars
    /\ HourChosen("g1", "c1", u, sel)

(* ------------------------------------------------------------------------ *)
(* C13.  Malformed or expired token: a selection whose token has a          *)
(* non-numeric start or end or no date, or whose window's end is not after  *)
(* now, is answered with an error and leaves the queue, the sent marks and  *)
(* the persisted document as they were.                                     *)
(* ------------------------------------------------------------------------ *)
Malformed(sel) ==
    \/ sel.tok.start = Garbage
    \/ sel.tok.end = Garbage
    \/ sel.tok.date \in {Garbage, Missing}

Expired(sel, t) == sel.tok.end # Garbage /\ sel.tok.end <= t

ErrorTexts ==
    { "no permission", "No valid hour selected.", "Error handling selection.",
      "That hour is outside the AOO event window." }

C13_BadTokenNoMutation ==
    [][\A u \in Users : \A sel \in Selections :
          ((Malformed(sel) \/ Expired(sel, now)) /\ Submitted(u, sel)) =>
              /\ UNCHANGED << scheduled, sent, nextId, disk >>
              /\ HourReply(scheduled, sent, nextId, now, "g1", "c1", u, sel)[1]
                    \in ErrorTexts]_vars

(* ------------------------------------------------------------------------ *)
(* C14.  Persist before return: the persisted document always holds the    *)
(* flags and the configuration of the state in memory, and whenever no      *)
(* sweep is suspended in a delivery it is the whole state in memory,        *)
(* serialized; in particular whenever no operation is in flight.            *)
(* ------------------------------------------------------------------------ *)
C14_Persisted ==
    /\ disk.flags = flags
    /\ disk.pingChannelId = cfgPing
    /\ (\A s \in Sweeps : swPc[s] = "idle") =>
          disk = Serialize(flags, scheduled, sent, cfgPing)

\* nothing is in flight after a poll has set a flag, the channel was set, a
\* selection was overwritten and a sweep has evicted one of the two jobs
C14_Witness ==
    /\ \A s \in Sweeps : swPc[s] = "idle"
    /\ \A p \in Polls : pollPc[p] = "idle"
    /\ flags # {}
    /\ cfgPing # Null
    /\ nextId = 4
    /\ Ids(scheduled) = {4}

(* ------------------------------------------------------------------------ *)
(* C15.  Cross-task interleaving.  A sweep returns from a delivery; the     *)
(* jobs of the queue that are not in the array it iterated were scheduled   *)
(* while it was suspended, and the jobs of that array that are not in the   *)
(* queue were removed while it was suspended.                               *)
(* ------------------------------------------------------------------------ *)
ReturnsFromDelivery(s) == swPc[s] = "deliver" /\ swPc'[s] = "idle"

Inserted(s) == Ids(scheduled) \ Ids(SweepArr(s))
Removed(s) == Ids(SweepArr(s)) \ Ids(scheduled)

\* C15 as claimed: every job scheduled during the sweep (none of which the
\* sweep delivers) is in the queue, in memory and on disk, when the sweep
\* has returned, and no job removed during the sweep is.
C15_InsertSurvives ==
    [][\A s \in Sweeps :
          ReturnsFromDelivery(s) =>
              /\ Inserted(s) \subseteq Ids(scheduled')
              /\ Inserted(s) \subseteq DiskIds'
              /\ Removed(s) \cap Ids(scheduled') = {}
              /\ Removed(s) \cap DiskIds' = {}]_vars

\* C15 as amended: every job scheduled during the sweep that no sweep has
\* marked sent is in the queue, in memory and on disk and in its order, when
\* the sweep has returned, and no job removed during the sweep is.
C15_UnsentInsertSurvives ==
    [][\A s \in Sweeps :
          ReturnsFromDelivery(s) =>
              /\ (Inserted(s) \ sent) \subseteq Ids(scheduled')
              /\ (Inserted(s) \ sent) \subseteq DiskIds'
              /\ Without(scheduled', Ids(scheduled') \ (Inserted(s) \ sent))
                    = Without(scheduled, Ids(scheduled) \ (Inserted(s) \ sent))
              /\ Removed(s) \cap Ids(scheduled') = {}
              /\ Removed(s) \cap DiskIds' = {}]_vars

\* a sweep is in its last delivery; meanwhile an unsent job was scheduled and
\* a job of its array was removed
C15_Witness ==
    \E s \in Sweeps :
        /\ swPc[s] = "deliver"
        /\ NextDue(SweepArr(s), swIdx[s] + 1, sent \cup {Current(s).id}, swNow[s]) = 0
        /\ Inserted(s) \ sent # {}
        /\ Removed(s) # {}

(* ------------------------------------------------------------------------ *)
(* C16.  Hour validation is consistent across steps: the hour menu of a     *)
(* token offers exactly the hours h of its date with start <= instant(date, *)
(* h) < end; the hour-chosen step accepts every offered hour and rejects    *)
(* every hour whose instant is outside the window, with the rejection       *)
(* message; when no hour qualifies the menu holds the sentinel only, and    *)
(* the step rejects it.  A rejected selection has no step that changes the  *)
(* state.                                                                   *)
(* ------------------------------------------------------------------------ *)
\* start <= instant(date, h) < end, for a token whose fields are numbers
Qualifies(tok, h) ==
    /\ Garbage \notin {tok.start, tok.end, tok.date}
    /\ tok.start <= tok.date * DAY + h * HOUR
    /\ tok.date * DAY + h * HOUR < tok.end

C16_Menu ==
    menu.stage = "hour" =>
        LET tok == menu.tok
            qualifying == { h \in 0..23 : Qualifies(tok, h) }
        IN  /\ menu.options \ {HourNone} = qualifying
            /\ menu.options = {HourNone} <=> qualifying = {}
            /\ \A h \in qualifying : Accepted(Sel(tok, h, TRUE))
            /\ \A h \in (0..23) \ qualifying : ~Accepted(Sel(tok, h, TRUE))
            /\ ~Accepted(Sel(tok, HourNone, TRUE))
            /\ \A u \in Users :
                  /\ \A h \in (0..23) \ qualifying :
                        HourReply(scheduled, sent, nextId, now, "g1", "c1", u,
                                  Sel(tok, h, TRUE))[1]
                           = "That hour is outside the AOO event window."
                  /\ HourReply(scheduled, sent, nextId, now, "g1", "c1", u,
                               Sel(tok, HourNone, TRUE))[1]
                        = "No valid hour selected."

C16_Rejected ==
    \A u \in Users : \A h \in (0..23) \cup {HourNone} :
        LET sel == Sel(menu.tok, h, TRUE)
        IN  (menu.stage = "hour" /\ ~Accepted(sel)) =>
                ~ ENABLED (HourChosen("g1", "c1", u, sel) /\ vars' # vars)

C16_HourValidation == C16_Menu /\ C16_Rejected

\* the hour menu of a date that has qualifying hours and hours outside the
\* window; and the hour menu that holds the sentinel only
C16_Witness ==
    /\ menu.stage = "hour"
    /\ \/ /\ 0 \in menu.options
          /\ 2 \notin menu.options
          /\ menu.tok.start > 0
       \/ menu.options = {HourNone}

(* ------------------------------------------------------------------------ *)
(* C17.  Candidate dates cover the window: the !aoo command offers at most  *)
(* 25 dates, each of which contains an instant of [start, end), and, up to  *)
(* the first 25 of them, every UTC day that contains a whole hour lying in  *)
(* [start, end): the day of end too when end is not at 00:00, and the one   *)
(* day of a window that starts and ends on the same day.                    *)
(* ------------------------------------------------------------------------ *)
\* the days that contain a whole hour lying in [start, end)
DaysWithHour(start, end) ==
    { d \in (start \div DAY)..(end \div DAY) :
        \E h \in 0..23 : start <= d * DAY + h * HOUR /\ d * DAY + h * HOUR < end }

\* the n smallest elements of the set S of numbers
Smallest(S, n) == { x \in S : Cardinality({ y \in S : y < x }) < n }

C17_DatesCover ==
    menu.stage \in {"date", "nodates"} =>
        LET start == menu.tok.start
            end == menu.tok.end
        IN  /\ Cardinality(menu.options) <= 25
            /\ \A d \in menu.options : start < (d + 1) * DAY /\ d * DAY < end
            /\ Smallest(DaysWithHour(start, end), 25) \subseteq menu.options

(* ------------------------------------------------------------------------ *)
(* C18.  A sweep touches only due jobs: a processScheduled invocation with  *)
(* time nowMs attempts delivery only for jobs that are unsent and have      *)
(* runAtMs <= nowMs; a job with runAtMs > nowMs is neither delivered nor    *)
(* marked sent nor removed by that sweep; no job is delivered before its    *)
(* runAtMs; and a job whose runAtMs has passed when a sweep starts is       *)
(* attempted before that sweep returns.                                     *)
(* ------------------------------------------------------------------------ *)
\* sweep s takes a step: it is invoked, or its pending delivery settles
SweepSteps(s) ==
    \/ swPc[s] = "deliver" /\ << swPc[s], swIdx[s] >> # << swPc'[s], swIdx'[s] >>
    \/ swPc[s] = "idle" /\ SweepStart(s)

\* the nowMs of the invocation that takes the step, and the array it iterates
SweepTime(s) == IF swPc[s] = "deliver" THEN swNow[s] ELSE now
SweepOwnArr(s) == IF swPc[s] = "deliver" THEN SweepArr(s) ELSE scheduled

\* the jobs, of the queue or of the array of sweep s, that are not due at t
NotDue(s, t) ==
    { x.id : x \in { y \in Range(scheduled) \cup Range(SweepOwnArr(s)) : y.runAtMs > t } }

\* the job whose delivery the step of sweep s settles, if any
Settled(s) == IF swPc[s] = "deliver" THEN {Current(s).id} ELSE {}

\* the delivery a sweep starts is that of an unsent job that is due
C18_AttemptsDue ==
    [][\A s \in Sweeps :
          SweepSteps(s) /\ swPc'[s] = "deliver" =>
              LET item == SweepArr(s)'[swIdx'[s]]
              IN  /\ item.id \notin sent \cup Settled(s)
                  /\ item.runAtMs <= SweepTime(s)
                  /\ swNow'[s] = SweepTime(s)]_vars

\* a step of a sweep neither delivers nor marks sent a job that is not due
C18_NotDueUntouched ==
    [][\A s \in Sweeps :
          SweepSteps(s) =>
              \A i \in NotDue(s, SweepTime(s)) :
                  /\ delivered'[i] <= delivered[i]
                  /\ i \in sent' => i \in sent]_vars

\* a step of a sweep removes no job that is not due
C18_NotDueKept ==
    [][\A s \in Sweeps :
          SweepSteps(s) =>
              NotDue(s, SweepTime(s)) \cap Ids(scheduled) \subseteq Ids(scheduled')]_vars

\* a step of a sweep removes a job that is not due only if another sweep
\* has marked it sent
C18_NotDueKeptUnlessSent ==
    [][\A s \in Sweeps :
          SweepSteps(s) =>
              (NotDue(s, SweepTime(s)) \cap Ids(scheduled)) \ sent \subseteq Ids(scheduled')]_vars

\* no job has been delivered before its time
C18_NeverEarly ==
    \A x \in Range(scheduled) \cup UNION { Range(SweepArr(s)) : s \in Sweeps } :
        delivered[x.id] > 0 => x.runAtMs <= now

\* when a sweep returns, every job of its array that was due at its nowMs has
\* been marked sent
C18_DueAttempted ==
    [][\A s \in Sweeps :
          SweepSteps(s) /\ swPc'[s] = "idle" =>
              \A x \in Range(SweepOwnArr(s)) :
                  x.runAtMs <= SweepTime(s) => x.id \in sent \cup Settled(s)]_vars

\* C18 as claimed
C18_OnlyDue ==
    /\ C18_AttemptsDue
    /\ C18_NotDueUntouched
    /\ C18_NotDueKept
    /\ []C18_NeverEarly
    /\ C18_DueAttempted

\* C18 with the removal limited to jobs that no other sweep has marked sent
C18_OnlyDueAmended ==
    /\ C18_AttemptsDue
    /\ C18_NotDueUntouched
    /\ C18_NotDueKeptUnlessSent
    /\ []C18_NeverEarly
    /\ C18_DueAttempted

\* A sweep is about to return while the queue holds a job that is not due at
\* its nowMs and that an overlapping sweep, started later, has marked sent.
C18_Witness ==
    \E s \in Sweeps :
        /\ swPc[s] = "deliver"
        /\ NextDue(SweepArr(s), swIdx[s] + 1, sent \cup {Current(s).id}, swNow[s]) = 0
        /\ \E x \in Range(scheduled) : x.runAtMs > swNow[s] /\ x.id \in sent
        /\ \E x \in Range(scheduled) : x.runAtMs > swNow[s] /\ x.id \notin sent

(* ------------------------------------------------------------------------ *)
(* C19.  Superseded reminders are never delivered: once the hour-chosen     *)
(* step has removed the unsent jobs of a group from the queue, no sweep     *)
(* starts the delivery of one of them, not even a sweep that was suspended  *)
(* in the delivery of another job when they were removed.                   *)
(* ------------------------------------------------------------------------ *)
\* the unsent jobs of the array of sweep s that removeScheduledByGroupKey has
\* taken out of the queue (a sweep's own filter takes out sent jobs only)
Superseded(s) == { x \in Range(SweepArr(s)) : x.id \notin sent /\ x.id \notin Ids(scheduled) }

C19_NoSupersededDelivery ==
    [][\A s \in Sweeps :
          /\ swPc[s] = "deliver"
          /\ swPc'[s] = "deliver"
          /\ swIdx'[s] # swIdx[s]
          => SweepArr(s)'[swIdx'[s]] \notin Superseded(s)]_vars

(* ------------------------------------------------------------------------ *)
(* C20.  The poll guard is always released: every runCheck invocation that  *)
(* takes the guard clears it when it ends, whether it ends normally, by the *)
(* early return for a missing or a non-text channel, or by an error of the  *)
(* calendar fetch or of a delivery; the guard is set exactly while a cycle  *)
(* is in flight; and whenever no cycle is in flight the next invocation     *)
(* takes the guard and runs a cycle.                                        *)
(* ------------------------------------------------------------------------ *)
\* the ways a cycle that took the guard ends
Endings == {"done", "nochannel", "badchannel", "error", "failed"}

\* every step in which an invocation that took the guard ends clears it
C20_ClearedAtEnd ==
    [][\A p \in Polls :
          /\ (Active(p) /\ ~Active(p)') =>
                 pollOutcome'[p] \in Endings /\ ~runCheckRunning'
          /\ (pollOutcome'[p] # pollOutcome[p] /\ pollOutcome'[p] \in Endings) =>
                 ~runCheckRunning']_vars

\* the guard is set exactly while a cycle is suspended in an await
C20_SetWhileInFlight == runCheckRunning <=> \E p \in Polls : Active(p)

\* an invocation made while no cycle is in flight is not turned away
C20_NotTurnedAway ==
    [][(callTick' # callTick /\ ~\E p \in Polls : Active(p)) =>
          \E p \in Polls : pollOutcome'[p] \in {"running", "nochannel"}
                           /\ (pollOutcome'[p] = "running" <=> cfgPing # Null)
                           /\ (pollOutcome'[p] = "running" => Active(p)')]_vars

\* whenever no cycle is in flight, runCheck can be invoked and takes the guard
C20_CanRunAgain ==
    (~\E p \in Polls : Active(p)) =>
        ENABLED (\E p \in Polls : RunCheck(p) /\ pollOutcome'[p] # "skipped")

C20_GuardReleased ==
    /\ C20_ClearedAtEnd
    /\ []C20_SetWhileInFlight
    /\ C20_NotTurnedAway
    /\ []C20_CanRunAgain

\* A cycle has ended by a delivery error after one announcement went out, the
\* guard is clear and a channel is set, so that the next invocation runs.
C20_Witness ==
    \E p \in Polls :
        /\ pollOutcome[p] = "failed"
        /\ pollLog[p] # << >>
        /\ ~runCheckRunning
        /\ cfgPing # Null
        /\ ENABLED (RunCheck(p) /\ pollOutcome'[p] = "running")

(* ------------------------------------------------------------------------ *)
(* C21.  Milestone order for a registration-window event: the warning is    *)
(* never announced before the opening, and the closing is never announced   *)
(* before the opening: in every reachable state the warning flag implies    *)
(* the open flag and the closed flag implies the open flag, and likewise    *)
(* for the announcements sent, for every duration of the event, durations   *)
(* shorter than six hours included.                                         *)
(* ------------------------------------------------------------------------ *)
RegEvents == { i \in 1..Len(calendar) : getEventType(calendar[i]) = "ark_registration" }

\* milestone m of event i has been announced, and its flag is set
Announced(i, m) == sendCount[FlagKey(calendar[i], m)] > 0
Flagged(i, m) == FlagKey(calendar[i], m) \in flags

\* milestone m of event i is not flagged, nor announced, before the opening
AfterOpen(i, m) ==
    /\ Flagged(i, m) => Flagged(i, 1)
    /\ Announced(i, m) => Announced(i, 1)

\* the event lasts six hours or more: its warning time is not before its start
SixHoursOrMore(i) == addHours(calendar[i].end, -6) >= calendar[i].start

\* C21 as claimed
C21_OpenFirst == \A i \in RegEvents : AfterOpen(i, 2) /\ AfterOpen(i, 3)

\* C21 as amended: the closing never precedes the opening; the warning does
\* not precede it when the event lasts six hours or more
C21_OpenFirstSixHours ==
    \A i \in RegEvents :
        /\ AfterOpen(i, 3)
        /\ SixHoursOrMore(i) => AfterOpen(i, 2)

\* The warning and the closing of an event of six hours or more have been
\* announced, and so has the closing of every registration-window event.
C21_Witness ==
    /\ \E i \in RegEvents : SixHoursOrMore(i) /\ Announced(i, 2) /\ Announced(i, 3)
    /\ \A i \in RegEvents : Announced(i, 3)

====
